---- MODULE Spec2Model ----
(***************************************************************************)
(* scripts/csv_to_backup.py: the conversion of a WorkoutLog CSV export     *)
(* into a SQLite backup file.  One run of main() is modelled as a state    *)
(* machine: argument checks, read_csv, schema creation, then the three     *)
(* nested loops of convert_csv_to_db (dates, exercises of a day, rows of   *)
(* an exercise) and the final commit.                                      *)
(*                                                                         *)
(* Text is a sequence of one-character strings, so that strip(), string    *)
(* comparison, substring search and strptime() are computed, not assumed.  *)
(* A line of the file is the sequence of its comma-separated cells (the    *)
(* csv tokenizer itself is the standard library's); a blank line is <<>>.  *)
(* Timestamps are minutes since the epoch (the code's value / 60000), in   *)
(* a fixed UTC local zone, to stay within TLC's integers.                  *)
(***************************************************************************)
EXTENDS Integers, Sequences, FiniteSets, TLC

\* ------------------------------------------------------------------ text

\* The characters in use, in code point order (Python compares str by code point).
Alphabet ==
    << " ", "#", "-", ".", "/",
       "0", "1", "2", "3", "4", "5", "6", "7", "8", "9", ":",
       "A", "B", "C", "D", "E", "N", "R", "S", "T", "W",
       "a", "d", "e", "f", "g", "h", "i", "m", "n", "o", "p", "r", "s", "t", "x" >>

CodePoint == [c \in {Alphabet[i] : i \in 1..Len(Alphabet)} |->
                 CHOOSE i \in 1..Len(Alphabet) : Alphabet[i] = c]

\* ord(c), up to the gaps between the characters in use
Ord(c) == CodePoint[c]

IsDigit(c) == c \in {"0", "1", "2", "3", "4", "5", "6", "7", "8", "9"}

DigitVal(c) == Ord(c) - Ord("0")

\* str.__lt__: the first differing character decides, a proper prefix is smaller.
RECURSIVE StrLess(_, _)
StrLess(s, t) ==
    IF t = <<>> THEN FALSE
    ELSE IF s = <<>> THEN TRUE
    ELSE IF Head(s) = Head(t) THEN StrLess(Tail(s), Tail(t))
    ELSE Ord(Head(s)) < Ord(Head(t))

\* min() and max() of a non-empty collection of str.
StrMin(S) == CHOOSE s \in S : \A t \in S : ~StrLess(t, s)

StrMax(S) == CHOOSE s \in S : \A t \in S : ~StrLess(s, t)

RECURSIVE LStrip(_)
LStrip(s) == IF s # <<>> /\ Head(s) = " " THEN LStrip(Tail(s)) ELSE s

RECURSIVE RStrip(_)
RStrip(s) ==
    IF s # <<>> /\ s[Len(s)] = " " THEN RStrip(SubSeq(s, 1, Len(s) - 1)) ELSE s

\* str.strip()
Strip(s) == RStrip(LStrip(s))

\* str.startswith(p)
StartsWith(s, p) == Len(s) >= Len(p) /\ SubSeq(s, 1, Len(p)) = p

\* p in s
Contains(s, p) ==
    \E i \in 1..(Len(s) + 1) :
        i + Len(p) - 1 <= Len(s) /\ SubSeq(s, i, i + Len(p) - 1) = p

\* The pieces of s between occurrences of the separator character.
RECURSIVE Split(_, _)
Split(s, sep) ==
    IF \A i \in 1..Len(s) : s[i] # sep THEN <<s>>
    ELSE LET k == CHOOSE i \in 1..Len(s) :
                      s[i] = sep /\ \A j \in 1..(i - 1) : s[j] # sep
         IN  <<SubSeq(s, 1, k - 1)>> \o Split(SubSeq(s, k + 1, Len(s)), sep)

AllDigits(s) == s # <<>> /\ \A i \in 1..Len(s) : IsDigit(s[i])

RECURSIVE NumVal(_)
NumVal(s) == IF s = <<>> THEN 0 ELSE 10 * NumVal(SubSeq(s, 1, Len(s) - 1)) + DigitVal(s[Len(s)])

\* ------------------------------------------------------- parse_datetime

IsLeap(y) == (y % 4 = 0 /\ y % 100 # 0) \/ y % 400 = 0

DaysInMonth(y, m) ==
    IF m = 2 THEN (IF IsLeap(y) THEN 29 ELSE 28)
    ELSE IF m \in {4, 6, 9, 11} THEN 30 ELSE 31

RECURSIVE DaysBeforeMonth(_, _)
DaysBeforeMonth(y, m) ==
    IF m = 1 THEN 0 ELSE DaysBeforeMonth(y, m - 1) + DaysInMonth(y, m - 1)

\* Days from 0001-01-01 to the first of January of year y.
DaysBeforeYear(y) ==
    LET p == y - 1 IN 365 * p + (p \div 4) - (p \div 100) + (p \div 400)

\* datetime.timestamp() of a naive datetime, in minutes.
Timestamp(y, m, d, hh, mm) ==
    (DaysBeforeYear(y) + DaysBeforeMonth(y, m) + d - DaysBeforeYear(1970) - 1) * 1440
        + hh * 60 + mm

\* %d, %m, %H, %M: one or two digits within the range.
Field2(s, lo, hi) == AllDigits(s) /\ Len(s) <= 2 /\ NumVal(s) >= lo /\ NumVal(s) <= hi

\* %H:%M
TimeOk(t) ==
    LET p == Split(t, ":")
    IN  Len(p) = 2 /\ Field2(p[1], 0, 23) /\ Field2(p[2], 0, 59)

\* The date part of a format: day, month and year pieces at positions id, im, iy.
DateOk(d, sep, id, im, iy) ==
    LET p == Split(d, sep)
    IN  /\ Len(p) = 3
        /\ AllDigits(p[iy]) /\ Len(p[iy]) = 4 /\ NumVal(p[iy]) >= 1
        /\ Field2(p[im], 1, 12)
        /\ Field2(p[id], 1, 31)
        /\ NumVal(p[id]) <= DaysInMonth(NumVal(p[iy]), NumVal(p[im]))

\* strptime(f"{date_str} {time_str}", "%d/%m/%Y %H:%M") succeeds
DmyOk(d, t) == DateOk(d, "/", 1, 2, 3) /\ TimeOk(t)

\* strptime(f"{date_str} {time_str}", "%Y-%m-%d %H:%M") succeeds
IsoOk(d, t) == DateOk(d, "-", 3, 2, 1) /\ TimeOk(t)

StampOf(d, t, sep, id, im, iy) ==
    LET p == Split(d, sep)
        q == Split(t, ":")
    IN  Timestamp(NumVal(p[iy]), NumVal(p[im]), NumVal(p[id]), NumVal(q[1]), NumVal(q[2]))

\* Whether parse_datetime falls back to datetime.now().
UsesNow(d, t) == ~DmyOk(d, t) /\ ~IsoOk(d, t)

\* parse_datetime, given what datetime.now() would return.
parse_datetime(d, t, now) ==
    IF DmyOk(d, t) THEN StampOf(d, t, "/", 1, 2, 3)
    ELSE IF IsoOk(d, t) THEN StampOf(d, t, "-", 3, 2, 1)
    ELSE now

\* int(s) of a stripped str: an optional sign and decimal digits.
IntOk(s) ==
    LET u == IF s # <<>> /\ Head(s) \in {"-"} THEN Tail(s) ELSE s
    IN  AllDigits(u)

\* float(s) of a stripped str: an optional sign, digits with at most one point.
FloatOk(s) ==
    LET u == IF s # <<>> /\ Head(s) \in {"-"} THEN Tail(s) ELSE s
        p == Split(u, ".")
    IN  /\ Len(p) <= 2
        /\ \A i \in 1..Len(p) : p[i] = <<>> \/ AllDigits(p[i])
        /\ \E i \in 1..Len(p) : p[i] # <<>>

\* ------------------------------------------------------------- read_csv

Dashes == << "-", "-", "-", "-", "-" >>

StrengthWord == << "S", "t", "r", "e", "n", "g", "t", "h" >>

\* line.strip(): leading and trailing blanks go; a line of blanks is the empty line.
StripLine(line) ==
    IF line = <<>> THEN <<>>
    ELSE LET n == Len(line)
             s == [i \in 1..n |->
                     IF n = 1 THEN Strip(line[i])
                     ELSE IF i = 1 THEN LStrip(line[i])
                     ELSE IF i = n THEN RStrip(line[i])
                     ELSE line[i]]
         IN  IF s = << <<>> >> THEN <<>> ELSE s

\* stripped.startswith('-----')
IsMarker(stripped) == stripped # <<>> /\ StartsWith(stripped[1], Dashes)

\* 'Strength' in stripped
NamesStrength(stripped) ==
    \E i \in 1..Len(stripped) : Contains(stripped[i], StrengthWord)

\* The scan's locals before the first line.  header_line is <<>> for None and
\* <<line>> otherwise; header_at and data_at are the line numbers kept beside them.
ScanInit ==
    [ in_strength_section |-> FALSE, header_line |-> <<>>, data_lines |-> <<>>,
      header_at |-> 0, data_at |-> <<>>, stopped |-> FALSE ]

\* One pass of the loop body on line i.
ScanLine(st, lines, i) ==
    LET stripped == StripLine(lines[i])
    IN  IF IsMarker(stripped)
        THEN IF NamesStrength(stripped)
             THEN [st EXCEPT !.in_strength_section = TRUE]
             ELSE IF st.in_strength_section
             THEN [st EXCEPT !.stopped = TRUE]
             ELSE st
        ELSE IF st.in_strength_section
             THEN IF st.header_line = <<>>
                  THEN [st EXCEPT !.header_line = <<stripped>>, !.header_at = i]
                  ELSE IF stripped # <<>>
                       THEN [st EXCEPT !.data_lines = Append(@, stripped),
                                       !.data_at = Append(@, i)]
                       ELSE st
             ELSE st

\* for line in lines: ... break
RECURSIVE Scan(_, _, _)
Scan(st, lines, i) ==
    IF i > Len(lines) \/ st.stopped THEN st
    ELSE Scan(ScanLine(st, lines, i), lines, i + 1)

\* The loop that builds clean_row from one csv.DictReader row: dict(zip(fieldnames,
\* cells)) keeps a repeated name's last value at its first position, a short row is
\* padded with None, cells past the names go under the key None; then empty keys are
\* skipped, names and values stripped, None made ''.
CleanRow(fieldnames, cells) ==
    LET at(k)   == {i \in 1..Len(fieldnames) : fieldnames[i] = k}
        first(k) == CHOOSE i \in at(k) : \A j \in at(k) : i <= j
        last(k)  == CHOOSE i \in at(k) : \A j \in at(k) : j <= i
        raw     == {fieldnames[i] : i \in 1..Len(fieldnames)} \ {<<>>}
        keys    == {Strip(k) : k \in raw}
        from(c) == CHOOSE k \in raw :
                      /\ Strip(k) = c
                      /\ \A m \in raw : Strip(m) = c => first(m) <= first(k)
        val(k)  == IF last(k) <= Len(cells) THEN Strip(cells[last(k)]) ELSE <<>>
    IN  [c \in keys |-> val(from(c))]

\* csv.DictReader over the lines numbered `at`, the first of them the header: the
\* rows with a non-empty clean_row, each kept with the number of its line.
DictRows(lines, at) ==
    IF at = <<>> THEN <<>>
    ELSE LET fieldnames == lines[at[1]]
             body == SelectSeq(Tail(at), LAMBDA i : lines[i] # <<>>)
             all  == [j \in 1..Len(body) |->
                        [line |-> body[j], f |-> CleanRow(fieldnames, lines[body[j]])]]
         IN  SelectSeq(all, LAMBDA r : DOMAIN r.f # {})

\* read_csv: the rows returned, with whether the fallback was taken.
read_csv(lines) ==
    LET st == Scan(ScanInit, lines, 1)
        stripped == [i \in 1..Len(lines) |-> StripLine(lines[i])]
    IN  IF st.header_line = <<>> \/ st.header_line[1] = <<>>
        THEN LET skip == lines # <<>> /\ IsMarker(stripped[1])
                 at   == [j \in 1..(Len(lines) - (IF skip THEN 1 ELSE 0)) |->
                            j + (IF skip THEN 1 ELSE 0)]
             IN  [ rows |-> DictRows(lines, at), fallback |-> TRUE ]
        ELSE [ rows |-> DictRows(stripped, <<st.header_at>> \o st.data_at),
               fallback |-> FALSE ]

\* ------------------------------------------------------------ the run

VARIABLES
    argc,               \* len(sys.argv)
    csv_exists,         \* csv_path.exists()
    lines,              \* the lines of the CSV file
    disk,               \* the database file: <<>> (absent) or <<its committed tables>>
    pc,                 \* where the run is
    exit_code,          \* -1 while running
    warned,             \* "Warning: No Strength section found" was printed
    rows,               \* read_csv's result, each row with the number of its line
    conn,               \* the tables as the connection sees them
    exercises,          \* name -> id
    workouts,           \* date_str -> id
    workout_exercises,  \* (workout_id, exercise_id) -> id
    rows_by_date,       \* date_str -> rows (a row is held by the number of its line)
    date_queue,         \* the dates the outer loop has still to visit
    day,                \* locals of the outer loop body
    ex_queue,           \* the (name, rows) items the exercise loop has still to visit
    ex,                 \* locals of the exercise loop body
    row_queue,          \* the rows the set loop has still to visit
    exercise_order,
    set_index,
    set_count,
    set_line,           \* for each row of sets, by id, the line of the row it was made from
    uids,               \* identifiers generate_uid has handed out
    clock               \* the last reading of datetime.now()

vars ==
    << argc, csv_exists, lines, disk, pc, exit_code, warned, rows, conn,
       exercises, workouts, workout_exercises, rows_by_date, date_queue, day,
       ex_queue, ex, row_queue, exercise_order, set_index, set_count,
       set_line, uids, clock >>

ColDate == << "D", "a", "t", "e" >>

ColTime == << "T", "i", "m", "e" >>

ColExercise == << "E", "x", "e", "r", "c", "i", "s", "e" >>

ColReps == << "#", " ", "o", "f", " ", "R", "e", "p", "s" >>

ColWeight == << "W", "e", "i", "g", "h", "t" >>

ColNotes == << "N", "o", "t", "e", "s" >>

\* The row read from line n: the lists built from rows hold the rows themselves,
\* here by the numbers of their lines.
Row(rs, n) == (CHOOSE i \in 1..Len(rs) : rs[i].line = n)

RowAt(rs, n) == rs[Row(rs, n)]

\* row.get(key, default)
Get(row, key, default) == IF key \in DOMAIN row.f THEN row.f[key] ELSE default

ZeroTime == << "0", "0", ":", "0", "0" >>

\* The empty mapping.
EmptyMap == [k \in {} |-> 0]

\* create_schema: the tables, empty, and the default settings row.
EmptyDb ==
    [ settings |-> << [id |-> 1, e1rm_formula |-> "epley", unit_preference |-> "kg",
                      theme_preference |-> "system"] >>,
      exercises |-> <<>>, workouts |-> <<>>, workout_exercises |-> <<>>,
      sets |-> <<>>, pr_events |-> <<>> ]

\* The database file an earlier run left at db_path (convert_csv_to_db removes it;
\* without one the run is the same from create_schema on).
StaleDb == [EmptyDb EXCEPT !.workouts = << [id |-> 1, uid |-> 0, started_at |-> 0,
                                           completed_at |-> 0] >>]

\* The moment the conversion runs (2026-11-02 00:00).
ConversionTime == Timestamp(2026, 11, 2, 0, 0)

\* datetime.now() does not go back between two calls; a call that is not made
\* leaves the last reading as it is.
Ticks == {0, 1}

NowAfter(c, called) == IF called THEN {c + t : t \in Ticks} ELSE {c}

\* The distinct entries of a sequence, in the order of their last occurrence.
RECURSIVE FirstSeen_LastSeen(_)
FirstSeen_LastSeen(s) ==
    IF s = <<>> THEN <<>>
    ELSE LET rest == FirstSeen_LastSeen(Tail(s))
             x == Head(s)
         IN  IF \E i \in 1..Len(rest) : rest[i] = x THEN rest ELSE <<x>> \o rest

\* The distinct entries of a sequence, in the order of their first occurrence.
RECURSIVE FirstSeen(_)
FirstSeen(s) ==
    IF s = <<>> THEN <<>>
    ELSE LET init == FirstSeen(SubSeq(s, 1, Len(s) - 1))
             x == s[Len(s)]
         IN  IF \E i \in 1..Len(init) : init[i] = x THEN init ELSE Append(init, x)

\* sorted(S, reverse=True) of a set of str
RECURSIVE SortedReverse(_)
SortedReverse(S) ==
    IF S = {} THEN <<>>
    ELSE LET m == StrMax(S) IN <<m>> \o SortedReverse(S \ {m})

\* The key a row is grouped under by date: row.get('Date', '').
DateKey(row) == Get(row, ColDate, <<>>)

\* The key a row is grouped under within a day: row.get('Exercise', '').strip().
ExerciseKey(row) == Strip(Get(row, ColExercise, <<>>))

\* The rows of a list, by the numbers of their lines.
LinesOf(rs) == [i \in 1..Len(rs) |-> rs[i].line]

\* The grouping by date with every row appended to every date's list.
GroupByDate_AllRows(rs) ==
    LET keys == {DateKey(rs[i]) : i \in 1..Len(rs)} \ {<<>>}
    IN  [d \in keys |-> LinesOf(rs)]

\* The grouping by date without its `if date_str`.
GroupByDate_KeepEmpty(rs) ==
    LET keys == {DateKey(rs[i]) : i \in 1..Len(rs)}
    IN  [d \in keys |-> LinesOf(SelectSeq(rs, LAMBDA r : DateKey(r) = d))]

\* rows_by_date after the grouping loop: rows with an empty date are left out.
GroupByDate(rs) ==
    LET keys == {DateKey(rs[i]) : i \in 1..Len(rs)} \ {<<>>}
    IN  [d \in keys |-> LinesOf(SelectSeq(rs, LAMBDA r : DateKey(r) = d))]

\* The grouping by exercise with each row put at the front of its list.
GroupByExercise_Prepend(day_rows) ==
    LET named == SelectSeq(day_rows, LAMBDA r : ExerciseKey(r) # <<>>)
        names == FirstSeen([i \in 1..Len(named) |-> ExerciseKey(named[i])])
        back(q) == [i \in 1..Len(q) |-> q[Len(q) + 1 - i]]
    IN  [j \in 1..Len(names) |->
            [ name |-> names[j],
              rows |-> back(LinesOf(SelectSeq(named,
                            LAMBDA r : ExerciseKey(r) = names[j]))) ]]

\* exercises_for_day.items(): names in the order first seen, each with its rows;
\* rows with an empty name are left out.
GroupByExercise(day_rows) ==
    LET named == SelectSeq(day_rows, LAMBDA r : ExerciseKey(r) # <<>>)
        names == FirstSeen([i \in 1..Len(named) |-> ExerciseKey(named[i])])
    IN  [j \in 1..Len(names) |->
            [ name |-> names[j],
              rows |-> LinesOf(SelectSeq(named, LAMBDA r : ExerciseKey(r) = names[j])) ]]

\* Where the run goes once a loop body is done: the innermost loop with items left.
Resume(rq, eq) ==
    IF rq # <<>> THEN "sets" ELSE IF eq # <<>> THEN "exercises" ELSE "dates"

NoDay == [date_str |-> <<>>, workout_id |-> 0, workout_started_at |-> 0]

NoEx == [exercise_name |-> <<>>, exercise_id |-> 0, we_id |-> 0]

\* min(row.get('Time', '00:00') for row in day_rows)
EarliestTime(day_rows) ==
    StrMin({Get(day_rows[i], ColTime, ZeroTime) : i \in 1..Len(day_rows)})

\* max(row.get('Time', '00:00') for row in day_rows)
LatestTime(day_rows) ==
    StrMax({Get(day_rows[i], ColTime, ZeroTime) : i \in 1..Len(day_rows)})

\* The parse with reps passed on as text.
ParsesOk_WeightOnly(row) ==
    LET weight_str == Strip(Get(row, ColWeight, <<>>))
    IN  weight_str = <<>> \/ FloatOk(weight_str)

\* float(weight_str) if weight_str else None, and int(reps_str) if reps_str else
\* None, raise no ValueError.
ParsesOk(row) ==
    LET weight_str == Strip(Get(row, ColWeight, <<>>))
        reps_str   == Strip(Get(row, ColReps, <<>>))
    IN  /\ weight_str = <<>> \/ FloatOk(weight_str)
        /\ reps_str = <<>> \/ IntOk(reps_str)

RECURSIVE DropZeros(_)
DropZeros(s) ==
    IF s # <<>> /\ s[Len(s)] = "0" THEN DropZeros(SubSeq(s, 1, Len(s) - 1)) ELSE s

\* float(s): the sign, the whole part and the fraction's significant digits.
FloatVal(s) ==
    LET neg == Head(s) = "-"
        p   == Split(IF neg THEN Tail(s) ELSE s, ".")
    IN  [ neg |-> neg /\ (NumVal(p[1]) # 0 \/ (Len(p) = 2 /\ DropZeros(p[2]) # <<>>)),
          whole |-> NumVal(p[1]),
          frac |-> IF Len(p) = 2 THEN DropZeros(p[2]) ELSE <<>> ]

\* int(s)
IntVal(s) == IF Head(s) = "-" THEN 0 - NumVal(Tail(s)) ELSE NumVal(s)

\* A column that may be NULL holds <<>> or <<value>>.
Null == <<>>

\* The connection opened with isolation_level=None: every statement commits.
AfterExecute_Autocommit(d, c) == <<c>>

\* What the file holds after conn.execute() of an INSERT, the file holding d before
\* and the connection seeing c after: sqlite3.connect(db_path) leaves the module's
\* default transaction control on, which opens a transaction before the first INSERT
\* and commits nothing until conn.commit().
AfterExecute(d, c) == d

\* main, up to the call of convert_csv_to_db
Main ==
    /\ pc = "main"
    /\ IF argc < 2 \/ ~csv_exists
       THEN pc' = "exit" /\ exit_code' = 1
       ELSE pc' = "convert" /\ exit_code' = exit_code
    /\ UNCHANGED << argc, csv_exists, lines, disk, warned, rows, conn,
                    exercises, workouts, workout_exercises, rows_by_date, date_queue,
                    day, ex_queue, ex, row_queue, exercise_order, set_index,
                    set_count, set_line, uids, clock >>

\* convert_csv_to_db, up to the loop over the dates
Convert ==
    /\ pc = "convert"
    /\ LET r == read_csv(lines)
       IN  /\ rows' = r.rows
           /\ warned' = r.fallback
           /\ IF r.rows = <<>>
              THEN /\ pc' = "exit" /\ exit_code' = 1
                   /\ UNCHANGED << disk, conn, rows_by_date, date_queue >>
              ELSE /\ pc' = "dates" /\ exit_code' = exit_code
                   /\ disk' = <<EmptyDb>>
                   /\ conn' = EmptyDb
                   /\ rows_by_date' = GroupByDate(r.rows)
                   /\ date_queue' = SortedReverse(DOMAIN GroupByDate(r.rows))
    /\ UNCHANGED << argc, csv_exists, lines, exercises, workouts, workout_exercises,
                    day, ex_queue, ex, row_queue, exercise_order, set_index,
                    set_count, set_line, uids, clock >>

\* The body of the loop over the dates, up to the loop over the day's exercises
NextDate ==
    /\ pc = "dates" /\ date_queue # <<>>
    /\ LET date_str == Head(date_queue)
           day_rows == [i \in 1..Len(rows_by_date[date_str]) |->
                          RowAt(rows, rows_by_date[date_str][i])]
           earliest_time == EarliestTime(day_rows)
           latest_time == LatestTime(day_rows)
           workout_id == Len(conn.workouts) + 1
       IN  \E n1 \in NowAfter(clock, UsesNow(date_str, earliest_time)) :
           \E n2 \in NowAfter(n1, UsesNow(date_str, latest_time)) :
             LET workout_started_at == parse_datetime(date_str, earliest_time, n1)
                 workout_completed_at == parse_datetime(date_str, latest_time, n2)
             IN  /\ clock' = n2
                 /\ conn' = [conn EXCEPT !.workouts = Append(@,
                               [ id |-> workout_id, uid |-> uids + 1,
                                 started_at |-> workout_started_at,
                                 completed_at |-> workout_completed_at ])]
                 /\ disk' = AfterExecute(disk, conn')
                 /\ workouts' = (date_str :> workout_id) @@ workouts
                 /\ day' = [ date_str |-> date_str, workout_id |-> workout_id,
                             workout_started_at |-> workout_started_at ]
                 /\ ex_queue' = GroupByExercise(day_rows)
                 /\ pc' = Resume(<<>>, GroupByExercise(day_rows))
    /\ uids' = uids + 1
    /\ date_queue' = Tail(date_queue)
    /\ exercise_order' = 0
    /\ UNCHANGED << argc, csv_exists, lines, exit_code, warned, rows,
                    exercises, workout_exercises, rows_by_date, ex, row_queue,
                    set_index, set_count, set_line >>

\* The insert made without looking the name up.
IsNewExercise_Always(name, known) == TRUE

\* if exercise_name not in exercises
IsNewExercise(name, known) == name \notin DOMAIN known

\* if we_key not in workout_exercises
IsNewLink(we_key, known) == we_key \notin DOMAIN known

\* The body of the loop over a day's exercises, up to the loop over its rows
NextExercise ==
    /\ pc = "exercises" /\ ex_queue # <<>>
    /\ LET exercise_name == Head(ex_queue).name
           exercise_rows == Head(ex_queue).rows
           new_exercise == IsNewExercise(exercise_name, exercises)
           exercise_id == IF new_exercise THEN Len(conn.exercises) + 1
                          ELSE exercises[exercise_name]
           conn1 == IF new_exercise
                    THEN [conn EXCEPT !.exercises = Append(@,
                            [ id |-> exercise_id, uid |-> uids + 1,
                              name |-> exercise_name,
                              created_at |-> day.workout_started_at ])]
                    ELSE conn
           uids1 == IF new_exercise THEN uids + 1 ELSE uids
           we_key == << day.workout_id, exercise_id >>
           new_link == IsNewLink(we_key, workout_exercises)
           we_id == IF new_link THEN Len(conn.workout_exercises) + 1
                    ELSE workout_exercises[we_key]
           first_row == RowAt(rows, exercise_rows[1])
           first_date == Get(first_row, ColDate, day.date_str)
           first_time == Get(first_row, ColTime, ZeroTime)
           first_note == Strip(Get(first_row, ColNotes, <<>>))
       IN  /\ exercises' = IF new_exercise
                           THEN (exercise_name :> exercise_id) @@ exercises
                           ELSE exercises
           /\ \E n \in NowAfter(clock, new_link /\ UsesNow(first_date, first_time)) :
                LET performed_at == parse_datetime(first_date, first_time, n)
                IN  /\ clock' = n
                    /\ conn' = IF new_link
                               THEN [conn1 EXCEPT !.workout_exercises = Append(@,
                                       [ id |-> we_id, uid |-> uids1 + 1,
                                         workout_id |-> day.workout_id,
                                         exercise_id |-> exercise_id,
                                         order_index |-> exercise_order,
                                         note |-> IF first_note # <<>>
                                                  THEN <<first_note>> ELSE Null,
                                         performed_at |-> performed_at,
                                         completed_at |-> performed_at ])]
                               ELSE conn1
           /\ disk' = AfterExecute(disk, conn')
           /\ workout_exercises' = IF new_link
                                   THEN (we_key :> we_id) @@ workout_exercises
                                   ELSE workout_exercises
           /\ exercise_order' = IF new_link THEN exercise_order + 1 ELSE exercise_order
           /\ uids' = IF new_link THEN uids1 + 1 ELSE uids1
           /\ ex' = [ exercise_name |-> exercise_name, exercise_id |-> exercise_id,
                      we_id |-> we_id ]
           /\ row_queue' = exercise_rows
           /\ pc' = Resume(exercise_rows, Tail(ex_queue))
    /\ ex_queue' = Tail(ex_queue)
    /\ set_index' = 0
    /\ UNCHANGED << argc, csv_exists, lines, exit_code, warned, rows,
                    workouts, rows_by_date, date_queue, day, set_count, set_line >>

\* The body of the loop over an exercise's rows, when both numbers parse
InsertSet ==
    /\ pc = "sets" /\ row_queue # <<>>
    /\ LET row == RowAt(rows, Head(row_queue))
           row_date == Get(row, ColDate, day.date_str)
           row_time == Get(row, ColTime, ZeroTime)
           weight_str == Strip(Get(row, ColWeight, <<>>))
           reps_str == Strip(Get(row, ColReps, <<>>))
           note == Strip(Get(row, ColNotes, <<>>))
       IN  /\ ParsesOk(row)
           /\ \E n \in NowAfter(clock, UsesNow(row_date, row_time)) :
                /\ clock' = n
                /\ conn' = [conn EXCEPT !.sets = Append(@,
                              [ id |-> Len(conn.sets) + 1, uid |-> uids + 1,
                                workout_id |-> day.workout_id,
                                exercise_id |-> ex.exercise_id,
                                workout_exercise_id |-> ex.we_id,
                                set_index |-> set_index,
                                weight_kg |-> IF weight_str # <<>>
                                              THEN <<FloatVal(weight_str)>> ELSE Null,
                                reps |-> IF reps_str # <<>>
                                         THEN <<IntVal(reps_str)>> ELSE Null,
                                note |-> IF note # <<>> THEN <<note>> ELSE Null,
                                performed_at |-> parse_datetime(row_date, row_time, n),
                                is_warmup |-> 0 ])]
           /\ disk' = AfterExecute(disk, conn')
           /\ set_line' = Append(set_line, row.line)
    /\ uids' = uids + 1
    /\ set_index' = set_index + 1
    /\ set_count' = set_count + 1
    /\ row_queue' = Tail(row_queue)
    /\ pc' = Resume(Tail(row_queue), ex_queue)
    /\ UNCHANGED << argc, csv_exists, lines, exit_code, warned, rows,
                    exercises, workouts, workout_exercises, rows_by_date, date_queue,
                    day, ex_queue, ex, exercise_order >>

\* The body of the loop over an exercise's rows, when float() or int() raises
\* ValueError: nothing catches it, the interpreter exits with status 1 and the
\* connection goes without a commit.
ParseError ==
    /\ pc = "sets" /\ row_queue # <<>>
    /\ LET row == RowAt(rows, Head(row_queue))
       IN  /\ ~ParsesOk(row)
           /\ clock' \in NowAfter(clock, UsesNow(Get(row, ColDate, day.date_str),
                                                 Get(row, ColTime, ZeroTime)))
    /\ pc' = "exit"
    /\ exit_code' = 1
    /\ UNCHANGED << argc, csv_exists, lines, disk, warned, rows, conn,
                    exercises, workouts, workout_exercises, rows_by_date, date_queue,
                    day, ex_queue, ex, row_queue, exercise_order, set_index,
                    set_count, set_line, uids >>

\* What conn.commit() leaves in the file: every insert since create_schema's commit
\* was made in the one transaction the connection opened for the first of them.
Committed(c) == <<c>>

\* After the loop over the dates: commit, close, and the summary
Finish ==
    /\ pc = "dates" /\ date_queue = <<>>
    /\ disk' = Committed(conn)
    /\ pc' = "exit"
    /\ exit_code' = 0
    /\ UNCHANGED << argc, csv_exists, lines, warned, rows, conn,
                    exercises, workouts, workout_exercises, rows_by_date, date_queue,
                    day, ex_queue, ex, row_queue, exercise_order, set_index,
                    set_count, set_line, uids, clock >>

Next == Main \/ Convert \/ NextDate \/ NextExercise \/ InsertSet \/ ParseError \/ Finish

\* ------------------------------------------------------------- inputs

\* The most data lines in an export.
MaxRows == 3

\* The most lines in a file of any layout.
MaxLines == 4

SeqsUpTo(S, n) == UNION {[1..k -> S] : k \in 0..n}

Date1 == << "1", "9", "/", "0", "1", "/", "2", "0", "2", "6" >>

Date2 == << "0", "2", "/", "0", "2", "/", "2", "0", "2", "6" >>

Time1830 == << "1", "8", ":", "3", "0" >>

Time905 == << "9", ":", "0", "5" >>

Time1000 == << "1", "0", ":", "0", "0" >>

MarkerLine(name) == << Dashes \o name \o Dashes >>

HeaderLine == << ColDate, ColTime, ColExercise, ColReps, ColWeight, ColNotes >>

\* A data line without its Notes cell.
DataLine(d, t, e, r, w) == << d, t, e, r, w >>

GoodLine == DataLine(Date1, Time1830, << "A" >>, << "6" >>, << "5", "0" >>)

BadRepsLine == DataLine(Date1, Time1830, << "A" >>, << "x" >>, << "5", "0" >>)

\* An export as the app writes it: the marker, the header, the data lines.
Export(body) == << MarkerLine(StrengthWord), HeaderLine >> \o body

Exports(S) == {Export(body) : body \in SeqsUpTo(S, MaxRows)}

\* Data lines that differ in date and exercise name.
GroupingLines ==
    { GoodLine, BadRepsLine,
      DataLine(Date1, Time1830, << "B" >>, << "6" >>, << "5", "0" >>),
      DataLine(Date2, Time1830, << "A" >>, << "6" >>, << "5", "0" >>),
      DataLine(<<>>,  Time1830, << "A" >>, << "6" >>, << "5", "0" >>),
      DataLine(Date1, Time1830, <<>>,      << "6" >>, << "5", "0" >>) }

\* Data lines that differ in what the Weight and '# of Reps' cells hold.
FieldLines ==
    { GoodLine, BadRepsLine,
      DataLine(Date1, Time1830, << "A" >>, << "6" >>, << "x" >>),
      DataLine(Date1, Time1830, << "A" >>, << "5", ".", "5" >>, << "5", "2", ".", "5" >>),
      DataLine(Date1, Time1830, << "A" >>, <<>>, <<>>),
      DataLine(<<>>,  Time1830, << "A" >>, << "x" >>, << "5", "0" >>),
      DataLine(Date2, Time1830, << " " >>, << "6" >>, << "x" >>) }

\* Data lines that differ in the time of day.
TimeLines ==
    { GoodLine, BadRepsLine,
      DataLine(Date1, Time905, << "A" >>, << "6" >>, << "5", "0" >>),
      DataLine(Date1, Time1000, << "A" >>, << "6" >>, << "5", "0" >>),
      DataLine(Date2, Time1000, << "B" >>, << "6" >>, << "5", "0" >>) }

\* Data lines that differ in the spelling of the exercise name.
NameLines ==
    { GoodLine, BadRepsLine,
      DataLine(Date2, Time1830, << " ", "A" >>, << "6" >>, << "5", "0" >>),
      DataLine(Date1, Time1830, << "a" >>, << "6" >>, << "5", "0" >>),
      DataLine(Date2, Time1830, << "a", " " >>, << "6" >>, << "5", "0" >>),
      DataLine(<<>>,  Time1830, << "B" >>, << "6" >>, << "5", "0" >>) }

\* Lines of a file of any layout: markers, a blank line, the header, data lines.
LayoutLines ==
    { MarkerLine(StrengthWord), MarkerLine(<< "C" >>),
      MarkerLine(StrengthWord \o << "2" >>),
      <<>>, HeaderLine, GoodLine, BadRepsLine }

\* The state main() starts in, for a file drawn from docs.
InitWith(docs) ==
    /\ \/ argc = 1 /\ csv_exists = FALSE /\ lines = <<>>
       \/ argc = 2 /\ csv_exists = FALSE /\ lines = <<>>
       \/ argc = 2 /\ csv_exists = TRUE /\ lines \in docs
    /\ disk = <<StaleDb>>
    /\ pc = "main"
    /\ exit_code = -1
    /\ warned = FALSE
    /\ rows = <<>>
    /\ conn = EmptyDb
    /\ exercises = EmptyMap
    /\ workouts = EmptyMap
    /\ workout_exercises = EmptyMap
    /\ rows_by_date = EmptyMap
    /\ date_queue = <<>>
    /\ day = NoDay
    /\ ex_queue = <<>>
    /\ ex = NoEx
    /\ row_queue = <<>>
    /\ exercise_order = 0
    /\ set_index = 0
    /\ set_count = 0
    /\ set_line = <<>>
    /\ uids = 0
    /\ clock = ConversionTime

Init == InitWith(Exports(GroupingLines))

InitFields == InitWith(Exports(FieldLines))

InitTimes == InitWith(Exports(TimeLines))

InitNames == InitWith(Exports(NameLines))

InitLayout == InitWith(SeqsUpTo(LayoutLines, MaxLines))

\* Exports whose lines differ in date and exercise name.
Spec == Init /\ [][Next]_vars

\* Exports whose lines differ in the Weight and '# of Reps' cells.
SpecFields == InitFields /\ [][Next]_vars

\* Exports whose lines differ in the time of day.
SpecTimes == InitTimes /\ [][Next]_vars

\* Exports whose lines differ in the spelling of the exercise name.
SpecNames == InitNames /\ [][Next]_vars

\* Files of any layout.
SpecLayout == InitLayout /\ [][Next]_vars

\* ------------------------------------------------------------- claims

\* The run has ended with exit code 0.
Completed == pc = "exit" /\ exit_code = 0

\* The run has ended on the ValueError of a Weight or '# of Reps' cell.
Aborted == pc = "exit" /\ exit_code = 1 /\ rows # <<>>

\* The tables of the database file.
Stored == disk[1]

\* The records the two grouping loops keep: a Date, and an Exercise that is not blank.
Grouped ==
    { i \in 1..Len(rows) :
        /\ Get(rows[i], ColDate, <<>>) # <<>>
        /\ Strip(Get(rows[i], ColExercise, <<>>)) # <<>> }

\* C1, as stated: when convert_csv_to_db completes, sets holds as many rows as
\* read_csv returned records, whatever their Date and Exercise cells.
C1_OneSetPerRecord == Completed => Len(Stored.sets) = Len(rows)

\* C1, amended: when convert_csv_to_db completes, sets holds exactly one row for
\* each record whose Date is not empty and whose Exercise is not blank, and none
\* for any other record.
C1_OneSetPerGroupedRecord ==
    Completed =>
        /\ Len(Stored.sets) = Cardinality(Grouped)
        /\ Len(set_line) = Len(Stored.sets)
        /\ {set_line[k] : k \in 1..Len(set_line)} = {rows[i].line : i \in Grouped}
        /\ set_count = Len(Stored.sets)

\* A completed run that made sets and left out a record without a Date and a record
\* without an Exercise.
C1_Witness ==
    /\ Completed
    /\ Len(Stored.sets) >= 1
    /\ \E i \in 1..Len(rows) : Get(rows[i], ColDate, <<>>) = <<>>
    /\ \E i \in 1..Len(rows) :
          Get(rows[i], ColDate, <<>>) # <<>> /\ Strip(Get(rows[i], ColExercise, <<>>)) = <<>>

\* The cells of record i.
DateOf(i) == Get(rows[i], ColDate, <<>>)

NameOf(i) == Strip(Get(rows[i], ColExercise, <<>>))

TimeOf(i) == Get(rows[i], ColTime, ZeroTime)

\* The record read from line n, as an index of rows.
Rec(n) == CHOOSE i \in 1..Len(rows) : rows[i].line = n

\* The Date values of the records.
Dates == {DateOf(i) : i \in 1..Len(rows)} \ {<<>>}

SetMin(S) == CHOOSE x \in S : \A y \in S : x <= y

SetMax(S) == CHOOSE x \in S : \A y \in S : y <= x

\* The timestamps of the records of date d.
StampsOf(d) == {parse_datetime(d, TimeOf(i), 0) : i \in {j \in 1..Len(rows) : DateOf(j) = d}}

\* C2, as stated: a Workout's started_at is the timestamp of the earliest time of day
\* and its completed_at that of the latest among the records of its date, whenever
\* their dates and times parse; so started_at <= completed_at.
C2_WorkoutSpansDay ==
    \A d \in DOMAIN workouts :
        (\A i \in 1..Len(rows) : DateOf(i) = d => ~UsesNow(d, TimeOf(i))) =>
            LET w == conn.workouts[workouts[d]]
            IN  /\ w.started_at = SetMin(StampsOf(d))
                /\ w.completed_at = SetMax(StampsOf(d))
                /\ w.started_at <= w.completed_at

\* The exercise names of the records the builder processes.
ProcessedNames == {NameOf(i) : i \in Grouped}

\* C3: exercises never holds two rows of one name; the name -> id map points at the
\* row of that name, and every set made from a record of that name carries its id,
\* in whichever workout; after a completed conversion the table holds exactly one row
\* for each distinct stripped, case-sensitive name of the processed records.
C3_OneExercisePerName ==
    /\ \A i, j \in 1..Len(conn.exercises) :
          conn.exercises[i].name = conn.exercises[j].name => i = j
    /\ \A n \in DOMAIN exercises :
          /\ exercises[n] \in 1..Len(conn.exercises)
          /\ conn.exercises[exercises[n]].name = n
          /\ conn.exercises[exercises[n]].id = exercises[n]
    /\ \A k \in 1..Len(conn.sets) :
          /\ conn.sets[k].exercise_id \in 1..Len(conn.exercises)
          /\ conn.exercises[conn.sets[k].exercise_id].name = NameOf(Rec(set_line[k]))
    /\ Completed =>
          /\ {Stored.exercises[i].name : i \in 1..Len(Stored.exercises)} = ProcessedNames
          /\ Len(Stored.exercises) = Cardinality(ProcessedNames)

\* A completed conversion in which two workouts share one Exercise, a name came with
\* blanks around it, and two names differ in case only.
C3_Witness ==
    /\ Completed
    /\ \E j, k \in 1..Len(Stored.workout_exercises) :
          /\ Stored.workout_exercises[j].exercise_id = Stored.workout_exercises[k].exercise_id
          /\ Stored.workout_exercises[j].workout_id # Stored.workout_exercises[k].workout_id
    /\ \E i \in 1..Len(lines) : Len(lines[i]) >= 3 /\ lines[i][3] = << " ", "A" >>
    /\ {<< "A" >>, << "a" >>} \subseteq ProcessedNames

\* C4: each date has one Workout of its own, and every Set made from a record of a
\* date carries the id of that date's Workout, as does the WorkoutExercise the Set
\* refers to (which also has the Set's exercise_id); after a completed conversion the
\* Workouts are exactly one per distinct Date of the records.
C4_OneWorkoutPerDate ==
    /\ \A d1, d2 \in DOMAIN workouts : workouts[d1] = workouts[d2] => d1 = d2
    /\ \A d \in DOMAIN workouts :
          /\ workouts[d] \in 1..Len(conn.workouts)
          /\ conn.workouts[workouts[d]].id = workouts[d]
    /\ Len(conn.workouts) = Cardinality(DOMAIN workouts)
    /\ \A k \in 1..Len(conn.sets) :
          LET s == conn.sets[k]
              d == DateOf(Rec(set_line[k]))
          IN  /\ d \in DOMAIN workouts
              /\ s.workout_id = workouts[d]
              /\ s.workout_exercise_id \in 1..Len(conn.workout_exercises)
              /\ conn.workout_exercises[s.workout_exercise_id].workout_id = s.workout_id
              /\ conn.workout_exercises[s.workout_exercise_id].exercise_id = s.exercise_id
    /\ Completed =>
          /\ DOMAIN workouts = Dates
          /\ Len(Stored.workouts) = Cardinality(Dates)
          /\ Stored = conn

\* A completed conversion of two dates, one of them with two Sets.
C4_Witness ==
    /\ Completed
    /\ Len(Stored.workouts) = 2
    /\ \E j, k \in 1..Len(Stored.sets) :
          j # k /\ Stored.sets[j].workout_id = Stored.sets[k].workout_id

\* The records of date d, in input order.
DayRecords(d) == {i \in 1..Len(rows) : DateOf(i) = d}

\* The exercise names of date d.
DayNames(d) == {NameOf(i) : i \in DayRecords(d)} \ {<<>>}

\* The first record of date d with exercise name n.
FirstAt(d, n) == SetMin({i \in DayRecords(d) : NameOf(i) = n})

\* How many names of date d appear before name n does.
Rank(d, n) == Cardinality({m \in DayNames(d) : FirstAt(d, m) < FirstAt(d, n)})

\* The WorkoutExercise rows of workout w.
LinksOf(w) ==
    {k \in 1..Len(conn.workout_exercises) : conn.workout_exercises[k].workout_id = w}

\* C5: no two WorkoutExercise rows share a (workout, exercise) pair; within a Workout
\* the order_index values are exactly 0..k-1, each the number of exercise names that
\* appear earlier among that date's records; after a completed conversion k is the
\* number of distinct names of the day.
C5_DenseOrderIndex ==
    /\ \A j, k \in 1..Len(conn.workout_exercises) :
          ( /\ conn.workout_exercises[j].workout_id = conn.workout_exercises[k].workout_id
            /\ conn.workout_exercises[j].exercise_id = conn.workout_exercises[k].exercise_id )
          => j = k
    /\ \A d \in DOMAIN workouts :
          LET L == LinksOf(workouts[d])
          IN  /\ {conn.workout_exercises[k].order_index : k \in L}
                    = 0..(Cardinality(L) - 1)
              /\ \A k \in L :
                    /\ conn.workout_exercises[k].exercise_id \in 1..Len(conn.exercises)
                    /\ conn.workout_exercises[k].order_index
                          = Rank(d, conn.exercises[conn.workout_exercises[k].exercise_id].name)
              /\ Completed => Cardinality(L) = Cardinality(DayNames(d))

\* A completed conversion of two dates: one has two exercises, and the other starts
\* again at 0 with the exercise that comes second in the first.
C5_Witness ==
    /\ Completed
    /\ \E j, k, m \in 1..Len(Stored.workout_exercises) :
          /\ Stored.workout_exercises[j].workout_id = Stored.workout_exercises[k].workout_id
          /\ Stored.workout_exercises[j].order_index = 0
          /\ Stored.workout_exercises[k].order_index = 1
          /\ Stored.workout_exercises[m].workout_id # Stored.workout_exercises[j].workout_id
          /\ Stored.workout_exercises[m].order_index = 0
          /\ Stored.workout_exercises[m].exercise_id = Stored.workout_exercises[k].exercise_id

\* The Set rows of WorkoutExercise w.
SetsOf(w) == {k \in 1..Len(conn.sets) : conn.sets[k].workout_exercise_id = w}

\* The records with the date and the exercise name of record i.
Subgroup(i) == {j \in 1..Len(rows) : DateOf(j) = DateOf(i) /\ NameOf(j) = NameOf(i)}

\* C6: within a WorkoutExercise the set_index values are exactly 0..n-1, and the Set
\* of index i is made from the i-th record, in input order, among the records of that
\* date and exercise name; after a completed conversion n is the number of those
\* records.
C6_DenseSetIndex ==
    /\ \A k \in 1..Len(conn.sets) :
          conn.sets[k].set_index
              = Cardinality({j \in Subgroup(Rec(set_line[k])) : j < Rec(set_line[k])})
    /\ \A w \in 1..Len(conn.workout_exercises) :
          /\ {conn.sets[k].set_index : k \in SetsOf(w)} = 0..(Cardinality(SetsOf(w)) - 1)
          /\ \A j, k \in SetsOf(w) : Subgroup(Rec(set_line[j])) = Subgroup(Rec(set_line[k]))
          /\ Completed =>
                \E i \in 1..Len(rows) :
                    /\ Cardinality(SetsOf(w)) = Cardinality(Subgroup(i))
                    /\ \A k \in SetsOf(w) : Rec(set_line[k]) \in Subgroup(i)

\* A completed conversion with a WorkoutExercise of two Sets whose records have a
\* record of another exercise between them.
C6_Witness ==
    /\ Completed
    /\ \E j, k \in 1..Len(Stored.sets) :
          /\ Stored.sets[j].workout_exercise_id = Stored.sets[k].workout_exercise_id
          /\ Stored.sets[j].set_index = 0
          /\ Stored.sets[k].set_index = 1
          /\ \E i \in Grouped :
                /\ Rec(set_line[j]) < i /\ i < Rec(set_line[k])
                /\ NameOf(i) # NameOf(Rec(set_line[j]))
                /\ DateOf(i) = DateOf(Rec(set_line[j]))

\* Record i has a Weight float() rejects or a '# of Reps' int() rejects.
BadNumber(i) ==
    LET w == Strip(Get(rows[i], ColWeight, <<>>))
        r == Strip(Get(rows[i], ColReps, <<>>))
    IN  (w # <<>> /\ ~FloatOk(w)) \/ (r # <<>> /\ ~IntOk(r))

\* main() went on to read the file.
WasRead == argc >= 2 /\ csv_exists /\ pc \notin {"main", "convert"}

\* C7, as stated: the exit is non-zero exactly when there is no input file, when no
\* record is extracted, or when some record has a Weight or '# of Reps' that is not
\* blank and not a number; it is 0 otherwise.
C7_ExitCodes ==
    pc = "exit" =>
        ( exit_code # 0 <=>
            \/ argc < 2 \/ ~csv_exists
            \/ rows = <<>>
            \/ \E i \in 1..Len(rows) : BadNumber(i) )

\* C7, amended: the exit is non-zero exactly when no path is given, when the input
\* file does not exist, when no record is extracted, or when some record with a Date
\* that is not empty and an Exercise that is not blank has a Weight float() rejects or
\* a '# of Reps' int() rejects; it is 0 otherwise.  The run stops at the first such
\* record the loops reach: no Set is made from it, and before any insert when the
\* exit is one of the first three.
C7_ExitCodesOfProcessedRecords ==
    pc = "exit" =>
        /\ exit_code \in {0, 1}
        /\ exit_code # 0 <=>
              \/ argc < 2 \/ ~csv_exists
              \/ rows = <<>>
              \/ \E i \in Grouped : BadNumber(i)
        /\ (exit_code # 0 /\ rows = <<>>) => conn = EmptyDb /\ disk = <<StaleDb>>
        /\ (exit_code # 0 /\ rows # <<>>) =>
              /\ row_queue # <<>>
              /\ BadNumber(Rec(Head(row_queue)))
              /\ \A k \in 1..Len(set_line) :
                    /\ ~BadNumber(Rec(set_line[k]))
                    /\ set_line[k] # Head(row_queue)

\* A run that left out a record with a bad number for want of a Date, made a Set, and
\* ended on the Weight of a later record.
C7_Witness ==
    /\ pc = "exit" /\ exit_code = 1
    /\ Len(conn.sets) >= 1
    /\ \E i \in 1..Len(rows) : i \notin Grouped /\ BadNumber(i)
    /\ LET w == Strip(Get(rows[Rec(Head(row_queue))], ColWeight, <<>>))
       IN  w # <<>> /\ ~FloatOk(w)

\* The calendar day of a day/month/year date.
DayOf(d) == StampOf(d, ZeroTime, "/", 1, 2, 3)

\* C8, as stated: of two workouts with day/month/year dates, the one of the later
\* calendar date is inserted, and gets its id, first.
C8_LaterDateFirst ==
    \A d1, d2 \in DOMAIN workouts :
        ( /\ DateOk(d1, "/", 1, 2, 3) /\ DateOk(d2, "/", 1, 2, 3)
          /\ DayOf(d1) > DayOf(d2) )
        => workouts[d1] < workouts[d2]

\* The lines that are markers naming the Strength section.
StrengthMarkers ==
    {i \in 1..Len(lines) : IsMarker(StripLine(lines[i])) /\ NamesStrength(StripLine(lines[i]))}

\* The first marker line after line i, or the line past the end.
NextMarker(i) ==
    SetMin({j \in (i + 1)..Len(lines) : IsMarker(StripLine(lines[j]))} \cup {Len(lines) + 1})

\* C9, as stated, in what it says of the records returned: with a marker naming the
\* Strength section in the file, the line after it is the header and the records are
\* exactly the non-empty lines from there to the next marker or the end (and not,
\* as in the fallback, the lines of the whole file).
C9_SectionIsolation ==
    (WasRead /\ StrengthMarkers # {}) =>
        LET m == SetMin(StrengthMarkers)
        IN  {rows[i].line : i \in 1..Len(rows)}
                = {j \in (m + 2)..(NextMarker(m) - 1) : StripLine(lines[j]) # <<>>}

\* C10, as stated: when the run ends on a Weight or '# of Reps' that does not parse,
\* after at least one insert, the database file holds every row inserted before.
C10_PartialOutput ==
    (Aborted /\ conn # EmptyDb) =>
        /\ Stored.workouts = conn.workouts
        /\ Stored.exercises = conn.exercises
        /\ Stored.workout_exercises = conn.workout_exercises
        /\ Stored.sets = conn.sets

\* C10, amended: the inserts are made in one transaction that only the commit at the
\* end of a completed run makes visible: when the run ends on a Weight or '# of Reps'
\* that does not parse, rows have been inserted (a Workout, an Exercise and a
\* WorkoutExercise at least) and the database file holds none of them, only what
\* create_schema committed: the empty tables and the default settings row.
C10_NothingCommittedOnAbort ==
    /\ Aborted =>
          /\ Len(conn.workouts) >= 1
          /\ Len(conn.exercises) >= 1
          /\ Len(conn.workout_exercises) >= 1
          /\ disk = <<EmptyDb>>
    /\ Completed => disk = <<conn>>

\* A run that ended on a '# of Reps' that does not parse after it had inserted a Set.
C10_Witness ==
    /\ Aborted
    /\ Len(conn.sets) >= 1
    /\ LET r == Strip(Get(rows[Rec(Head(row_queue))], ColReps, <<>>))
       IN  r # <<>> /\ ~IntOk(r)

====
